---- MODULE Spec2Model ----
(***************************************************************************)
(* A model of fitmentapp.py (Car Tuner Pro): the wheel-corner resolver     *)
(* create_tpms_diagram, the free-text record parser of the admin tab, the  *)
(* rendering of the three data tabs and the admin login flag.              *)
(*                                                                         *)
(* Text is modelled as a sequence of characters (one-character strings),   *)
(* so that split, strip, startswith and replace are computed character by  *)
(* character as Python computes them.  The separator character U+2501 is   *)
(* written BoxChar.                                                        *)
(***************************************************************************)
EXTENDS Integers, Sequences, FiniteSets, TLC

VARIABLES
    car_data,          \* the rows handed to create_tpms_diagram
    row_i,             \* number of rows the loop of create_tpms_diagram has consumed
    wheel_corners,     \* the four corners: text and color
    raw_text,          \* the text area of the admin tools
    batch_date,        \* the date picker of the admin tools
    parsed_data,       \* the list of records the parser has appended
    parse_outcome,     \* "idle", "skipped", "success" or "error"
    df_fitment,        \* loaded fitment table: its columns and whether it is empty
    df_engine,         \* loaded engine table
    df_values,         \* loaded values table
    tab_selection,     \* the values of the four selectboxes in the last script run
    tab_outcome,       \* what the last script run left in tab1, tab2 and tab3
    secrets_auth,      \* st.secrets: whether [auth] admin_password is set, and its value
    session_state,     \* st.session_state: whether the key is present, and the flag
    password_attempt,  \* value of the password input in the last run
    logout_clicked,    \* whether the last run was triggered by the Logout button
    admin_view,        \* what the last script run rendered in tab4
    rerun_pending,     \* st.rerun() was called: the script runs again at once
    renders            \* number of script runs of the session so far

vars == <<car_data, row_i, wheel_corners, raw_text, batch_date, parsed_data,
          parse_outcome, df_fitment, df_engine, df_values, tab_selection,
          tab_outcome,
          secrets_auth, session_state, password_attempt, logout_clicked,
          admin_view, rerun_pending, renders>>

resolverVars == <<car_data, row_i, wheel_corners>>
parserVars == <<raw_text, batch_date, parsed_data, parse_outcome>>
tabVars == <<df_fitment, df_engine, df_values, tab_selection, tab_outcome>>
adminVars == <<secrets_auth, session_state, password_attempt, logout_clicked,
               admin_view, rerun_pending, renders>>

(***************************************************************************)
(* Bounds of the model.                                                    *)
(***************************************************************************)
MaxRows == 3
MaxPieces == 3
MaxRenders == 8

(***************************************************************************)
(* The parts of the state a specification of one component leaves alone.   *)
(***************************************************************************)
ResolverIdle ==
    /\ car_data = <<>>
    /\ row_i = 0
    /\ wheel_corners = <<>>

ParserIdle ==
    /\ raw_text = <<>>
    /\ batch_date = ""
    /\ parsed_data = <<>>
    /\ parse_outcome = "idle"

TabsIdle ==
    /\ df_fitment = <<>>
    /\ df_engine = <<>>
    /\ df_values = <<>>
    /\ tab_selection = <<>>
    /\ tab_outcome = <<>>

AdminIdle ==
    /\ secrets_auth = <<>>
    /\ session_state = <<>>
    /\ password_attempt = ""
    /\ logout_clicked = FALSE
    /\ admin_view = <<>>
    /\ rerun_pending = FALSE
    /\ renders = 0

(***************************************************************************)
(* 3. Diagram logic: create_tpms_diagram                                   *)
(***************************************************************************)
Corners == {"FL", "FR", "RL", "RR"}

UnsetText == "N/A"
UnsetColor == "#adadad"
AssignedColor == "#333"

\* wheel_corners as the function builds it before the loop (x and y, which
\* no statement changes, are left out)
InitialCorners == [k \in Corners |-> [text |-> UnsetText, color |-> UnsetColor]]

\* the position tags of the rows: the ten the loop tests for and two it does not
Tags == {"front", "front_axle", "back", "rear", "rear_axle", "all",
         "front_left", "front_right", "back_left", "back_right",
         "unknown_tag", "rear_left"}

Widths == {205, 225}

FitmentRows == [position : Tags, width_mm : Widths,
                aspect_ratio : {55}, rim_diameter_in : {16}]

\* fmt(row): the f-string of the nested function
fmt(row) ==
    "<b>" \o ToString(row.width_mm) \o " / " \o ToString(row.aspect_ratio)
          \o " R" \o ToString(row.rim_diameter_in) \o "</b>"

\* wheel_corners[key].update({'text': label, 'color': '#333'}) for each key of keys
UpdateCorners(corners, keys, label) ==
    [k \in Corners |-> IF k \in keys
                       THEN [text |-> label, color |-> AssignedColor]
                       ELSE corners[k]]

\* the row the loop is about to consume
HasRow == row_i < Len(car_data)
CurRow == car_data[row_i + 1]

\* one iteration of the loop that assigns `keys`
Assign(keys) ==
    /\ wheel_corners' = UpdateCorners(wheel_corners, keys, fmt(CurRow))
    /\ row_i' = row_i + 1
    /\ UNCHANGED <<car_data, parserVars, tabVars, adminVars>>

\* mutant: the front branch updates the left corner only
RowFront_LeftOnly ==
    /\ HasRow
    /\ CurRow.position \in {"front", "front_axle"}
    /\ Assign({"FL"})

RowFront ==
    /\ HasRow
    /\ CurRow.position \in {"front", "front_axle"}
    /\ Assign({"FL", "FR"})

RowRear ==
    /\ HasRow
    /\ CurRow.position \in {"back", "rear", "rear_axle"}
    /\ Assign({"RL", "RR"})

\* mutant: the `all` branch updates the front corners only
RowAll_FrontOnly ==
    /\ HasRow
    /\ CurRow.position = "all"
    /\ Assign({"FL", "FR"})

RowAll ==
    /\ HasRow
    /\ CurRow.position = "all"
    /\ Assign(Corners)

\* mutant: the front_left branch updates both front corners
RowFrontLeft_BothFront ==
    /\ HasRow
    /\ CurRow.position = "front_left"
    /\ Assign({"FL", "FR"})

RowFrontLeft ==
    /\ HasRow
    /\ CurRow.position = "front_left"
    /\ Assign({"FL"})

RowFrontRight ==
    /\ HasRow
    /\ CurRow.position = "front_right"
    /\ Assign({"FR"})

RowBackLeft ==
    /\ HasRow
    /\ CurRow.position = "back_left"
    /\ Assign({"RL"})

RowBackRight ==
    /\ HasRow
    /\ CurRow.position = "back_right"
    /\ Assign({"RR"})

\* mutant: `rear_left` is taken for a tag of the rear-left corner
RowIgnored_RearLeft ==
    /\ HasRow
    /\ CurRow.position \notin {"front", "front_axle", "back", "rear", "rear_axle",
                               "all", "front_left", "front_right", "back_left",
                               "back_right"}
    /\ IF CurRow.position = "rear_left"
       THEN Assign({"RL"})
       ELSE /\ row_i' = row_i + 1
            /\ UNCHANGED <<car_data, wheel_corners, parserVars, tabVars, adminVars>>

\* no branch of the if/elif chain matches: the iteration changes nothing
RowIgnored ==
    /\ HasRow
    /\ CurRow.position \notin {"front", "front_axle", "back", "rear", "rear_axle",
                               "all", "front_left", "front_right", "back_left",
                               "back_right"}
    /\ row_i' = row_i + 1
    /\ UNCHANGED <<car_data, wheel_corners, parserVars, tabVars, adminVars>>

\* the loop has consumed every row: wheel_corners is what the figure shows
Resolved == row_i = Len(car_data)

\* create_tpms_diagram is entered with the rows of one vehicle
InitResolver ==
    /\ car_data \in UNION {[1..n -> FitmentRows] : n \in 0..MaxRows}
    /\ row_i = 0
    /\ wheel_corners = InitialCorners
    /\ ParserIdle /\ TabsIdle /\ AdminIdle

NextResolver ==
    \/ RowFront
    \/ RowRear
    \/ RowAll
    \/ RowFrontLeft
    \/ RowFrontRight
    \/ RowBackLeft
    \/ RowBackRight
    \/ RowIgnored

SpecResolver == InitResolver /\ [][NextResolver]_vars

(***************************************************************************)
(* Properties of the position resolver.                                    *)
(***************************************************************************)
\* the corners a tag is said to cover
TagCovers(tag) ==
    CASE tag \in {"front", "front_axle"} -> {"FL", "FR"}
      [] tag \in {"back", "rear", "rear_axle"} -> {"RL", "RR"}
      [] tag = "all" -> {"FL", "FR", "RL", "RR"}
      [] tag = "front_left" -> {"FL"}
      [] tag = "front_right" -> {"FR"}
      [] tag = "back_left" -> {"RL"}
      [] tag = "back_right" -> {"RR"}
      [] OTHER -> {}

\* index of the last row of car_data whose tag covers corner k, 0 if there is none
LastCovering(k) ==
    LET idx == {i \in 1..Len(car_data) : k \in TagCovers(car_data[i].position)}
    IN IF idx = {} THEN 0 ELSE CHOOSE i \in idx : \A j \in idx : j <= i

\* "{width} / {aspect} R{rim}"
SizeText(row) ==
    ToString(row.width_mm) \o " / " \o ToString(row.aspect_ratio)
        \o " R" \o ToString(row.rim_diameter_in)

FrontTags == {"front", "front_axle"}
SingleFrontTags == {"front_left", "front_right"}
RecognisedTags == {"front", "front_axle", "back", "rear", "rear_axle", "all",
                   "front_left", "front_right", "back_left", "back_right"}

HasTag(tags) == \E i \in 1..Len(car_data) : car_data[i].position \in tags

\* index of the last row of car_data whose tag is in tags (there is one)
LastTagged(tags) ==
    CHOOSE i \in 1..Len(car_data) :
        /\ car_data[i].position \in tags
        /\ \A j \in (i + 1)..Len(car_data) : car_data[j].position \notin tags

\* C1 as stated: after resolution every corner carries the text
\* "{width} / {aspect} R{rim}" of the last row whose tag covers it, and the
\* unset default if no row covers it.
C1_PlainLabelOfLastCoveringRow ==
    Resolved =>
        \A k \in Corners :
            wheel_corners[k].text =
                IF LastCovering(k) = 0 THEN "N/A"
                ELSE SizeText(car_data[LastCovering(k)])

\* C1 amended: after resolution every corner carries the text
\* "<b>{width} / {aspect} R{rim}</b>" (the size text inside bold markup) of
\* the last row whose tag covers it, and "N/A" if no row covers it.
C1_BoldLabelOfLastCoveringRow ==
    Resolved =>
        \A k \in Corners :
            wheel_corners[k].text =
                IF LastCovering(k) = 0 THEN "N/A"
                ELSE "<b>" \o SizeText(car_data[LastCovering(k)]) \o "</b>"

\* a `front` row followed by a `front_left` row of another size: only FL changes
C1_Witness ==
    /\ Resolved
    /\ Len(car_data) = 2
    /\ car_data[1].position = "front" /\ car_data[1].width_mm = 205
    /\ car_data[2].position = "front_left" /\ car_data[2].width_mm = 225
    /\ wheel_corners["FL"].text = "<b>225 / 55 R16</b>"
    /\ wheel_corners["FR"].text = "<b>205 / 55 R16</b>"
    /\ wheel_corners["RL"].text = "N/A"

\* C2 as stated: if some row is tagged front or front_axle then after
\* resolution FL and FR carry the same text, and neither is the unset text.
C2_FrontRowGivesEqualFrontLabels ==
    (Resolved /\ HasTag(FrontTags)) =>
        /\ wheel_corners["FL"].text = wheel_corners["FR"].text
        /\ wheel_corners["FL"].text # "N/A"
        /\ wheel_corners["FR"].text # "N/A"

\* C2 amended: if some row is tagged front or front_axle then after
\* resolution neither FL nor FR carries the unset text, and they carry the
\* same text provided no front_left or front_right row follows the last
\* front/front_axle row.
C2_FrontLabelsEqualUnlessOverwritten ==
    (Resolved /\ HasTag(FrontTags)) =>
        /\ wheel_corners["FL"].text # "N/A"
        /\ wheel_corners["FR"].text # "N/A"
        /\ (\A j \in (LastTagged(FrontTags) + 1)..Len(car_data) :
                car_data[j].position \notin SingleFrontTags)
           => wheel_corners["FL"].text = wheel_corners["FR"].text

\* a front_left row overwritten by a later front_axle row of another size
C2_Witness ==
    /\ Resolved
    /\ Len(car_data) = 2
    /\ car_data[1].position = "front_left" /\ car_data[1].width_mm = 225
    /\ car_data[2].position = "front_axle" /\ car_data[2].width_mm = 205
    /\ wheel_corners["FL"].text = "<b>205 / 55 R16</b>"
    /\ wheel_corners["FR"].text = "<b>205 / 55 R16</b>"

\* C3 as stated: if some row is tagged all then after resolution the four
\* corners carry the same text and all carry the assigned color.
C3_AllRowGivesFourEqualLabels ==
    (Resolved /\ HasTag({"all"})) =>
        /\ \A k, l \in Corners : wheel_corners[k].text = wheel_corners[l].text
        /\ \A k \in Corners : wheel_corners[k].color = "#333"

\* C3 amended: if some row is tagged all then after resolution all four
\* corners carry the assigned color, and they carry the same text provided
\* every row after the last `all` row has an unrecognised tag.
C3_AllLabelsEqualUnlessOverwritten ==
    (Resolved /\ HasTag({"all"})) =>
        /\ \A k \in Corners : wheel_corners[k].color = "#333"
        /\ (\A j \in (LastTagged({"all"}) + 1)..Len(car_data) :
                car_data[j].position \notin RecognisedTags)
           => \A k, l \in Corners : wheel_corners[k].text = wheel_corners[l].text

\* a rear row, then an all row of another size, then an unrecognised row
C3_Witness ==
    /\ Resolved
    /\ Len(car_data) = 3
    /\ car_data[1].position = "rear" /\ car_data[1].width_mm = 225
    /\ car_data[2].position = "all" /\ car_data[2].width_mm = 205
    /\ car_data[3].position = "rear_left" /\ car_data[3].width_mm = 225
    /\ \A k \in Corners : wheel_corners[k] = [text |-> "<b>205 / 55 R16</b>",
                                              color |-> "#333"]

\* the loop has so far consumed only rows with unrecognised tags (or no row)
OnlyUnrecognisedSoFar ==
    \A i \in 1..row_i : car_data[i].position \notin RecognisedTags

\* C4: an iteration over a row whose tag is none of the ten recognised tags
\* changes no corner and completes; so while only such rows (or no rows) have
\* been consumed, all four corners carry "N/A" and the neutral color.
C4_UnrecognisedTagChangesNothing ==
    /\ [](OnlyUnrecognisedSoFar =>
            \A k \in Corners : wheel_corners[k] = [text |-> "N/A", color |-> "#adadad"])
    /\ [][(HasRow /\ CurRow.position \notin RecognisedTags)
            => (wheel_corners' = wheel_corners /\ row_i' = row_i + 1)]_vars

\* three rows of unrecognised tags resolved: four unset corners
C4_Witness ==
    /\ Resolved
    /\ Len(car_data) = 3
    /\ car_data[1].position = "unknown_tag"
    /\ car_data[2].position = "rear_left"
    /\ wheel_corners["RL"] = [text |-> "N/A", color |-> "#adadad"]

(***************************************************************************)
(* 4. Admin tools: the record parser of the text area (lines 246-291)      *)
(***************************************************************************)
\* the character U+2501 of the separator
BoxChar == "U+2501"

\* '━━━'
Separator == <<BoxChar, BoxChar, BoxChar>>

NL == <<"\n">>

\* "Value:", "Junkyard Rate:", "Auction Rate:"
ValuePrefix == <<"V", "a", "l", "u", "e", ":">>
JunkPrefix == <<"J", "u", "n", "k", "y", "a", "r", "d", " ", "R", "a", "t", "e", ":">>
AuctionPrefix == <<"A", "u", "c", "t", "i", "o", "n", " ", "R", "a", "t", "e", ":">>

\* the initial values of val, junk and auc: "0", "N/A", "N/A"
DefaultVal == <<"0">>
DefaultRate == <<"N", "/", "A">>

\* the characters str.strip() removes (those of them a text of the model can hold)
Whitespace == {" ", "\n", "\t", "\r"}

\* s.lstrip(), s.rstrip(), s.strip()
RECURSIVE lstrip(_)
lstrip(s) ==
    IF s # <<>> /\ Head(s) \in Whitespace THEN lstrip(Tail(s)) ELSE s

RECURSIVE rstrip(_)
rstrip(s) ==
    IF s # <<>> /\ s[Len(s)] \in Whitespace THEN rstrip(SubSeq(s, 1, Len(s) - 1)) ELSE s

strip(s) == rstrip(lstrip(s))

\* s.startswith(p)
startswith(s, p) == Len(s) >= Len(p) /\ SubSeq(s, 1, Len(p)) = p

\* s.find(sub) + 1: the position of the leftmost occurrence of sub in s, 0 if none
find(s, sub) ==
    LET at == {i \in 1..(Len(s) - Len(sub) + 1) : SubSeq(s, i, i + Len(sub) - 1) = sub}
    IN IF at = {} THEN 0 ELSE CHOOSE i \in at : \A j \in at : i <= j

\* s.split(sep): the pieces between the occurrences of sep, found left to right
RECURSIVE split(_, _)
split(s, sep) ==
    LET i == find(s, sep)
    IN IF i = 0 THEN <<s>>
       ELSE <<SubSeq(s, 1, i - 1)>> \o split(SubSeq(s, i + Len(sep), Len(s)), sep)

\* s.replace(old, new): every occurrence of old, found left to right, becomes new
RECURSIVE replace(_, _, _)
replace(s, old, new) ==
    LET i == find(s, old)
    IN IF i = 0 THEN s
       ELSE SubSeq(s, 1, i - 1) \o new \o replace(SubSeq(s, i + Len(old), Len(s)), old, new)

\* [f(x) for x in seq], [x for x in seq if x]
RECURSIVE StripEach(_)
StripEach(seq) ==
    IF seq = <<>> THEN <<>> ELSE <<strip(Head(seq))>> \o StripEach(Tail(seq))

NonEmpty(x) == x # <<>>

\* lines = [line.strip() for line in entry.strip().split('\n') if line.strip()]
EntryLines(entry) == SelectSeq(StripEach(split(strip(entry), NL)), NonEmpty)

\* line.replace(prefix, "").strip()
FieldValue(line, prefix) == strip(replace(line, prefix, <<>>))

\* the loop over lines[1:]: val, junk and auc after the lines of `rest`
RECURSIVE ScanLines(_, _)
ScanLines(rest, fields) ==
    IF rest = <<>> THEN fields
    ELSE LET line == Head(rest)
         IN ScanLines(Tail(rest),
                IF startswith(line, ValuePrefix)
                THEN [fields EXCEPT !.val = FieldValue(line, ValuePrefix)]
                ELSE IF startswith(line, JunkPrefix)
                THEN [fields EXCEPT !.junk = FieldValue(line, JunkPrefix)]
                ELSE IF startswith(line, AuctionPrefix)
                THEN [fields EXCEPT !.auc = FieldValue(line, AuctionPrefix)]
                ELSE fields)

\* mutant: val starts as "N/A" like the two rates
InitialFields_AllNA == [val |-> DefaultRate, junk |-> DefaultRate, auc |-> DefaultRate]

\* val = "0"; junk = "N/A"; auc = "N/A"
InitialFields == [val |-> DefaultVal, junk |-> DefaultRate, auc |-> DefaultRate]

\* mutant: the field loop scans the name line too
FieldLines_WithName(lines) == lines

\* the lines the field loop scans: lines[1:]
FieldLines(lines) == Tail(lines)

\* the dict appended to parsed_data for an entry with these (non-empty) lines
EntryRecord(lines, date) ==
    LET f == ScanLines(FieldLines(lines), InitialFields)
    IN [Date |-> date, CarName |-> lines[1], Value |-> f.val,
        JunkyardRate |-> f.junk, AuctionRate |-> f.auc]

\* mutant: the check for an entry without lines is missing
SkipEntry_Never(lines) == FALSE

\* `if not lines: continue`
SkipEntry(lines) == lines = <<>>

\* the loop over entries inside the try block.  lines[0] raises IndexError on
\* an empty list; the result tells whether an exception was raised and holds
\* the records appended before it.
RECURSIVE ParseEntries(_, _, _)
ParseEntries(entries, date, acc) ==
    IF entries = <<>> THEN [raised |-> FALSE, rows |-> acc]
    ELSE LET lines == EntryLines(Head(entries))
         IN IF SkipEntry(lines) THEN ParseEntries(Tail(entries), date, acc)
            ELSE IF lines = <<>> THEN [raised |-> TRUE, rows |-> acc]
            ELSE ParseEntries(Tail(entries), date,
                              Append(acc, EntryRecord(lines, date)))

\* entries = raw_text.split('━━━') and the loop over them
ParseText(text, date) == ParseEntries(split(text, Separator), date, <<>>)

\* the pieces the pasted texts of the model are put together from
Fragments == {Separator, <<BoxChar>>, NL, <<" ">>, <<"A">>, <<"5">>,
              ValuePrefix, JunkPrefix, AuctionPrefix}

\* "Car A\nValue: 100\n━━━\nCar B\nJunkyard Rate: 50"
ExampleText == 
    <<"C", "a", "r", " ", "A", "\n", "V", "a", "l", "u", "e", ":", " ", "1",
    "0", "0", "\n", BoxChar, BoxChar, BoxChar, "\n", "C", "a", "r", " ",
    "B", "\n", "J", "u", "n", "k", "y", "a", "r", "d", " ", "R", "a", "t",
    "e", ":", " ", "5", "0">>

\* what the texts of the model begin with
SeedTexts == {<<>>, <<"A", "\n">>, ExampleText}

RECURSIVE TextsOfPieces(_)
TextsOfPieces(n) ==
    IF n = 0 THEN {<<>>}
    ELSE LET shorter == TextsOfPieces(n - 1)
         IN shorter \cup {t \o f : t \in shorter, f \in Fragments}

Texts == {s \o t : s \in SeedTexts, t \in TextsOfPieces(MaxPieces)}

\* values of st.date_input
Dates == {"2026-01-05", "2026-02-09"}

\* a script run with the tools shown and text in the text area: the try block
RenderParse ==
    /\ parse_outcome = "idle"
    /\ raw_text # <<>>
    /\ LET r == ParseText(raw_text, batch_date)
       IN /\ parse_outcome' = IF r.raised THEN "error" ELSE "success"
          /\ parsed_data' = IF r.raised THEN <<>> ELSE r.rows
    /\ UNCHANGED <<raw_text, batch_date, resolverVars, tabVars, adminVars>>

\* a script run with the tools shown and an empty text area: `if raw_text:` fails
RenderNoText ==
    /\ parse_outcome = "idle"
    /\ raw_text = <<>>
    /\ parse_outcome' = "skipped"
    /\ UNCHANGED <<raw_text, batch_date, parsed_data, resolverVars, tabVars, adminVars>>

InitParser ==
    /\ raw_text \in Texts
    /\ batch_date \in Dates
    /\ parsed_data = <<>>
    /\ parse_outcome = "idle"
    /\ ResolverIdle /\ TabsIdle /\ AdminIdle

NextParser ==
    \/ RenderParse
    \/ RenderNoText

SpecParser == InitParser /\ [][NextParser]_vars

(***************************************************************************)
(* Properties of the record parser.                                        *)
(***************************************************************************)
\* the script run of the admin tools has ended
Parsed == parse_outcome # "idle"

\* the separator-delimited segments of the text
Segments == split(raw_text, Separator)

\* the segment has a line with a character that is not whitespace
HasNonBlankLine(seg) == \E i \in 1..Len(seg) : seg[i] \notin Whitespace

NonBlankSegments == SelectSeq(Segments, HasNonBlankLine)

\* the non-blank lines of a segment, trimmed, in order
TrimmedLines(seg) == SelectSeq(StripEach(split(seg, NL)), NonEmpty)

\* the first line of the segment that is not blank, trimmed
FirstNonBlankLine(seg) ==
    LET ls == split(seg, NL)
        j == CHOOSE i \in 1..Len(ls) :
                 /\ HasNonBlankLine(ls[i])
                 /\ \A h \in 1..(i - 1) : ~HasNonBlankLine(ls[h])
    IN strip(ls[j])

\* the positions, among the lines after the first, of those starting with prefix
PrefixLines(after, prefix) == {j \in 1..Len(after) : startswith(after[j], prefix)}

\* the last line after the first that starts with prefix (there is one)
LastPrefixLine(after, prefix) ==
    after[CHOOSE j \in PrefixLines(after, prefix) :
              \A h \in PrefixLines(after, prefix) : h <= j]

\* the text of a line after its leading prefix, trimmed
SuffixAfter(line, prefix) == strip(SubSeq(line, Len(prefix) + 1, Len(line)))

\* C5: the run yields one record per segment with a non-blank line, in segment
\* order; its name is the segment's first non-blank line trimmed and its date
\* the batch date; a name line that begins with a prefix is not scanned as a
\* field; text without such a segment (the empty text too) yields no record.
C5_OneRecordPerNonBlankSegment ==
    Parsed =>
        /\ Len(parsed_data) = Len(NonBlankSegments)
        /\ \A k \in 1..Len(NonBlankSegments) :
            LET seg == NonBlankSegments[k]
                rec == parsed_data[k]
                name == FirstNonBlankLine(seg)
                after == Tail(TrimmedLines(seg))
            IN /\ rec.CarName = name
               /\ rec.Date = batch_date
               /\ (startswith(name, ValuePrefix) /\ PrefixLines(after, ValuePrefix) = {})
                      => rec.Value = <<"0">>
               /\ (startswith(name, JunkPrefix) /\ PrefixLines(after, JunkPrefix) = {})
                      => rec.JunkyardRate = <<"N", "/", "A">>
               /\ (startswith(name, AuctionPrefix) /\ PrefixLines(after, AuctionPrefix) = {})
                      => rec.AuctionRate = <<"N", "/", "A">>

\* "A\n" + separator + "Value:" + "5": the second record is named "Value:5"
C5_Witness ==
    /\ parse_outcome = "success"
    /\ raw_text = <<"A", "\n">> \o Separator \o ValuePrefix \o <<"5">>
    /\ Len(parsed_data) = 2
    /\ parsed_data[1].CarName = <<"A">>
    /\ parsed_data[2].CarName = ValuePrefix \o <<"5">>
    /\ parsed_data[2].Value = <<"0">>
    /\ parsed_data[2].Date = batch_date

\* C6 as stated: a field whose prefix starts a line after the first holds the
\* text that follows that leading prefix, trimmed; later occurrences of the
\* prefix text in the line are kept.
C6_FieldIsSuffixAfterLeadingPrefix ==
    Parsed =>
        \A k \in 1..Len(parsed_data) :
            LET rec == parsed_data[k]
                after == Tail(TrimmedLines(NonBlankSegments[k]))
            IN /\ PrefixLines(after, ValuePrefix) # {}
                    => rec.Value = SuffixAfter(LastPrefixLine(after, ValuePrefix), ValuePrefix)
               /\ PrefixLines(after, JunkPrefix) # {}
                    => rec.JunkyardRate =
                           SuffixAfter(LastPrefixLine(after, JunkPrefix), JunkPrefix)
               /\ PrefixLines(after, AuctionPrefix) # {}
                    => rec.AuctionRate =
                           SuffixAfter(LastPrefixLine(after, AuctionPrefix), AuctionPrefix)

\* the field is the default if no line after the first starts with its prefix,
\* and else what the last such line gives, whatever the other lines are
FieldFromOwnLines(after, prefix, default, actual) ==
    IF PrefixLines(after, prefix) = {} THEN actual = default
    ELSE actual = FieldValue(LastPrefixLine(after, prefix), prefix)

\* C7: a field whose prefix starts no line after the first of its segment has
\* its default ("0", "N/A", "N/A"); lines that start with none of the prefixes
\* change no field; the two-segment example yields the two records stated.
C7_MissingPrefixesDefault ==
    Parsed =>
        /\ \A k \in 1..Len(parsed_data) :
            LET rec == parsed_data[k]
                after == Tail(TrimmedLines(NonBlankSegments[k]))
            IN /\ FieldFromOwnLines(after, ValuePrefix, <<"0">>, rec.Value)
               /\ FieldFromOwnLines(after, JunkPrefix, <<"N", "/", "A">>, rec.JunkyardRate)
               /\ FieldFromOwnLines(after, AuctionPrefix, <<"N", "/", "A">>, rec.AuctionRate)
        /\ raw_text = ExampleText =>
            parsed_data =
                << [Date |-> batch_date, CarName |-> <<"C", "a", "r", " ", "A">>,
                    Value |-> <<"1", "0", "0">>, JunkyardRate |-> <<"N", "/", "A">>,
                    AuctionRate |-> <<"N", "/", "A">>],
                   [Date |-> batch_date, CarName |-> <<"C", "a", "r", " ", "B">>,
                    Value |-> <<"0">>, JunkyardRate |-> <<"5", "0">>,
                    AuctionRate |-> <<"N", "/", "A">>] >>

\* the example text parsed
C7_Witness ==
    /\ parse_outcome = "success"
    /\ raw_text = ExampleText
    /\ Len(parsed_data) = 2
    /\ parsed_data[1].Value = <<"1", "0", "0">>
    /\ parsed_data[2].Value = <<"0">>
    /\ parsed_data[2].JunkyardRate = <<"5", "0">>

\* C8: no run ends in the error outcome; a run over a non-empty text succeeds
\* and every segment with a non-blank line has its record, the malformed ones
\* too: defaults where no prefix line is present, the empty text where a
\* prefix line has nothing after the prefix.
C8_ParsingNeverFails ==
    /\ parse_outcome # "error"
    /\ (Parsed /\ raw_text # <<>>) =>
        /\ parse_outcome = "success"
        /\ Len(parsed_data) =
               Cardinality({i \in 1..Len(Segments) : HasNonBlankLine(Segments[i])})
        /\ \A k \in 1..Len(NonBlankSegments) :
            LET rec == parsed_data[k]
                after == Tail(TrimmedLines(NonBlankSegments[k]))
            IN /\ (\A j \in 1..Len(after) :
                      /\ ~startswith(after[j], ValuePrefix)
                      /\ ~startswith(after[j], JunkPrefix)
                      /\ ~startswith(after[j], AuctionPrefix))
                    => /\ rec.Value = <<"0">>
                       /\ rec.JunkyardRate = <<"N", "/", "A">>
                       /\ rec.AuctionRate = <<"N", "/", "A">>
               /\ (PrefixLines(after, ValuePrefix) # {}
                      /\ LastPrefixLine(after, ValuePrefix) = ValuePrefix)
                    => rec.Value = <<>>
               /\ (PrefixLines(after, JunkPrefix) # {}
                      /\ LastPrefixLine(after, JunkPrefix) = JunkPrefix)
                    => rec.JunkyardRate = <<>>
               /\ (PrefixLines(after, AuctionPrefix) # {}
                      /\ LastPrefixLine(after, AuctionPrefix) = AuctionPrefix)
                    => rec.AuctionRate = <<>>

\* "A\n" + "Value:" + separator + "5": a prefix without suffix, then a segment
\* of a name only
C8_Witness ==
    /\ parse_outcome = "success"
    /\ raw_text = <<"A", "\n">> \o ValuePrefix \o Separator \o <<"5">>
    /\ Len(parsed_data) = 2
    /\ parsed_data[1].Value = <<>>
    /\ parsed_data[2].CarName = <<"5">>
    /\ parsed_data[2].Value = <<"0">>

(***************************************************************************)
(* 4. Main UI: the three data tabs (lines 113-198)                         *)
(***************************************************************************)
\* a loaded table: whether it has rows, and which of the columns the tabs look
\* up it holds.  The fitment sheet is taken to hold the size columns, the
\* values sheet the rate columns.
FitmentColumns == {"make", "model", "position"}
EngineColumns == {"engine"}
ValuesColumns == {"car name", "value"}

Tables(columns) == [has_rows : BOOLEAN, columns : SUBSET columns]

\* df.empty (a table with rows has columns, those followed here or others)
IsEmpty(df) == ~df.has_rows

\* the (make, model) pairs of the fitment rows, the engines, the car names
FitmentData == {<<"Toyota", "Supra">>, <<"Toyota", "Celica">>, <<"Mazda", "RX7">>}
EngineData == {"2JZ", "13B"}
ValuesData == {"Merquis G Wafer"}

\* index=None of a selectbox: nothing selected
NoSelection == ""

\* makes_fit: sorted(df_fitment['make'].unique()) if 'make' in columns else []
makes_fit(df) ==
    IF "make" \in df.columns /\ df.has_rows THEN {r[1] : r \in FitmentData} ELSE {}

\* models_fit: the models of the rows of the selected make
models_fit(sel_make) == {r[2] : r \in {x \in FitmentData : x[1] = sel_make}}

\* res_fit: the rows of the selected make and model
res_fit(sel_make, sel_model) ==
    {r \in FitmentData : r[1] = sel_make /\ r[2] = sel_model}

\* tab1.  "exception" is an uncaught KeyError, "selectors" the tab with its two
\* selectboxes and nothing else, "diagram" the chart, "warning" st.warning.
Tab1(df, sel_make, sel_model) ==
    IF sel_make = NoSelection THEN "selectors"
    ELSE IF "model" \notin df.columns THEN "exception"
    ELSE IF sel_model = NoSelection THEN "selectors"
    ELSE IF res_fit(sel_make, sel_model) # {}
         THEN IF "position" \in df.columns THEN "diagram" ELSE "exception"
         ELSE "warning"

\* tab2.  "blank" is the tab with its header alone.
Tab2(df, sel_engine) ==
    IF IsEmpty(df) THEN "warning"
    ELSE IF "engine" \in df.columns
         THEN IF sel_engine = NoSelection THEN "selector" ELSE "view"
         ELSE "blank"

\* tab3.  "error_message" is st.error.
Tab3(df, sel_car) ==
    IF IsEmpty(df) THEN "warning"
    ELSE IF "car name" \in df.columns
         THEN IF sel_car = NoSelection THEN "selector"
              ELSE IF "value" \in df.columns THEN "view" ELSE "exception"
         ELSE "error_message"

\* what the selectboxes offer for these tables
MakeOptions == makes_fit(df_fitment) \cup {NoSelection}
ModelOptions(sel_make) ==
    IF sel_make # NoSelection /\ "model" \in df_fitment.columns
    THEN models_fit(sel_make) \cup {NoSelection}
    ELSE {NoSelection}
EngineOptions ==
    IF ~IsEmpty(df_engine) /\ "engine" \in df_engine.columns
    THEN EngineData \cup {NoSelection} ELSE {NoSelection}
CarOptions ==
    IF ~IsEmpty(df_values) /\ "car name" \in df_values.columns
    THEN ValuesData \cup {NoSelection} ELSE {NoSelection}

\* an uncaught exception ends the script run: the later tabs are not rendered
Aborted(before) == \E o \in before : o = "exception"

\* one script run: tab1, tab2 and tab3 in turn under the user's selections
RenderTabs ==
    \E sel_make \in MakeOptions :
    \E sel_model \in ModelOptions(sel_make) :
    \E sel_engine \in EngineOptions :
    \E sel_car \in CarOptions :
        LET t1 == Tab1(df_fitment, sel_make, sel_model)
            t2 == IF Aborted({t1}) THEN "not_rendered" ELSE Tab2(df_engine, sel_engine)
            t3 == IF Aborted({t1, t2}) THEN "not_rendered" ELSE Tab3(df_values, sel_car)
        IN /\ tab_selection' = [make |-> sel_make, model |-> sel_model,
                                engine |-> sel_engine, car |-> sel_car]
           /\ tab_outcome' = [tab1 |-> t1, tab2 |-> t2, tab3 |-> t3]
           /\ UNCHANGED <<df_fitment, df_engine, df_values,
                          resolverVars, parserVars, adminVars>>

\* the tables as load_data returned them; no script run has rendered a tab yet
InitTabs ==
    /\ df_fitment \in Tables(FitmentColumns)
    /\ df_engine \in Tables(EngineColumns)
    /\ df_values \in Tables(ValuesColumns)
    /\ tab_selection = [make |-> NoSelection, model |-> NoSelection,
                        engine |-> NoSelection, car |-> NoSelection]
    /\ tab_outcome = [tab1 |-> "not_rendered", tab2 |-> "not_rendered",
                      tab3 |-> "not_rendered"]
    /\ ResolverIdle /\ ParserIdle /\ AdminIdle

NextTabs == RenderTabs

SpecTabs == InitTabs /\ [][NextTabs]_vars

(***************************************************************************)
(* Properties of the data tabs.                                            *)
(***************************************************************************)
\* the tab shows a message (st.warning or st.error) and no data
MessageAndEmptyView(outcome) == outcome \in {"warning", "error_message"}

\* C9: when a loaded table has rows but lacks an expected column, every
\* render of its tab ends with a message and an empty view, never in an
\* uncaught exception or a tab that stays blank without a message.
C9_MissingColumnGivesWarning ==
    /\ (tab_outcome.tab1 # "not_rendered" /\ ~IsEmpty(df_fitment)
            /\ FitmentColumns \ df_fitment.columns # {})
           => MessageAndEmptyView(tab_outcome.tab1)
    /\ (tab_outcome.tab2 # "not_rendered" /\ ~IsEmpty(df_engine)
            /\ "engine" \notin df_engine.columns)
           => MessageAndEmptyView(tab_outcome.tab2)
    /\ (tab_outcome.tab3 # "not_rendered" /\ ~IsEmpty(df_values)
            /\ "car name" \notin df_values.columns)
           => MessageAndEmptyView(tab_outcome.tab3)

(***************************************************************************)
(* 4. Main UI: the admin login of tab4 (lines 201-230)                     *)
(***************************************************************************)
\* st.secrets: with [auth] admin_password or without
Secrets ==
    {[configured |-> FALSE, admin_password |-> ""]}
        \cup [configured : {TRUE}, admin_password : {"", "hunter2", "opensesame"}]

\* what a user types into the password input
Attempts == {"", "hunter2", "opensesame", "letmein"}

\* lines 211-212 and 214: the flag the run reads, False when the key is absent
FlagAtEntry == session_state.present /\ session_state.admin_logged_in

\* mutant: any non-empty attempt is accepted
PasswordAccepted_AnyText(attempt) == attempt # ""

\* `if password_attempt:` and the comparison with the secret
PasswordAccepted(attempt) ==
    attempt # "" /\ attempt = secrets_auth.admin_password

\* the widgets of the page the user acts on are those the last run rendered,
\* and a run started by st.rerun() carries no new input
MayType == admin_view.prompt /\ ~rerun_pending
MayClickLogout == admin_view.tools /\ ~rerun_pending

\* what a run leaves of the state it does not decide
EndRun(attempt, clicked, message, prompt, tools, rerun) ==
    /\ renders < MaxRenders
    /\ renders' = renders + 1
    /\ password_attempt' = attempt
    /\ logout_clicked' = clicked
    /\ admin_view' = [message |-> message, prompt |-> prompt, tools |-> tools]
    /\ rerun_pending' = rerun
    /\ UNCHANGED <<secrets_auth, resolverVars, parserVars, tabVars>>

\* lines 205-207: no admin password in the secrets: st.error and st.stop
RunNotConfigured ==
    /\ ~secrets_auth.configured
    /\ EndRun("", FALSE, "not_configured", FALSE, FALSE, FALSE)
    /\ UNCHANGED session_state

\* lines 214-217, 226: the password input is shown and holds nothing
RunPrompt ==
    /\ secrets_auth.configured
    /\ ~FlagAtEntry
    /\ session_state' = [present |-> TRUE, admin_logged_in |-> FALSE]
    /\ EndRun("", FALSE, "none", TRUE, session_state'.admin_logged_in, FALSE)

\* lines 218-221: the attempt is the password: the flag is set, st.rerun()
RunLogin ==
    /\ secrets_auth.configured
    /\ ~FlagAtEntry
    /\ MayType
    /\ \E attempt \in Attempts :
        /\ PasswordAccepted(attempt)
        /\ session_state' = [present |-> TRUE, admin_logged_in |-> TRUE]
        /\ EndRun(attempt, FALSE, "granted", TRUE, FALSE, TRUE)

\* lines 222-223, 226: another non-empty attempt: st.error, the flag stays False
RunIncorrect ==
    /\ secrets_auth.configured
    /\ ~FlagAtEntry
    /\ MayType
    /\ \E attempt \in Attempts :
        /\ attempt # ""
        /\ ~PasswordAccepted(attempt)
        /\ session_state' = [present |-> TRUE, admin_logged_in |-> FALSE]
        /\ EndRun(attempt, FALSE, "incorrect", TRUE, session_state'.admin_logged_in,
                  FALSE)

\* lines 226-244: the flag is True and Logout was not clicked: the tools
RunTools ==
    /\ secrets_auth.configured
    /\ FlagAtEntry
    /\ UNCHANGED session_state
    /\ EndRun("", FALSE, "none", FALSE, session_state.admin_logged_in, FALSE)

\* lines 228-230: the flag is True and Logout was clicked: st.rerun()
RunLogout ==
    /\ secrets_auth.configured
    /\ FlagAtEntry
    /\ MayClickLogout
    /\ session_state' = [present |-> TRUE, admin_logged_in |-> FALSE]
    /\ EndRun("", TRUE, "none", FALSE, FALSE, TRUE)

\* a new session: st.session_state is empty and no run has rendered anything
InitAdmin ==
    /\ secrets_auth \in Secrets
    /\ session_state = [present |-> FALSE, admin_logged_in |-> FALSE]
    /\ password_attempt = ""
    /\ logout_clicked = FALSE
    /\ admin_view = [message |-> "none", prompt |-> FALSE, tools |-> FALSE]
    /\ rerun_pending = FALSE
    /\ renders = 0
    /\ ResolverIdle /\ ParserIdle /\ TabsIdle

NextAdmin ==
    \/ RunNotConfigured
    \/ RunPrompt
    \/ RunLogin
    \/ RunIncorrect
    \/ RunTools
    \/ RunLogout

SpecAdmin == InitAdmin /\ [][NextAdmin]_vars

(***************************************************************************)
(* Properties of the admin login.                                          *)
(***************************************************************************)
LoggedIn == session_state.present /\ session_state.admin_logged_in

\* C10: the flag starts false (the key is absent, and False when first set);
\* it turns true only in a run whose non-empty attempt equals the configured
\* password; it turns false only in a run started by a Logout click; the
\* tools are rendered only in a run in which the flag is true and the password
\* is configured, and never in a run that showed the password input.
C10_AdminFlag ==
    /\ ~LoggedIn
    /\ [](admin_view.tools =>
            /\ LoggedIn
            /\ secrets_auth.configured
            /\ ~admin_view.prompt
            /\ admin_view.message \notin {"incorrect", "not_configured"})
    /\ [][/\ (~session_state.present /\ session_state'.present)
                => ~session_state'.admin_logged_in
          /\ (~LoggedIn /\ LoggedIn')
                => /\ secrets_auth.configured
                   /\ password_attempt' # ""
                   /\ password_attempt' = secrets_auth.admin_password
          /\ (LoggedIn /\ ~LoggedIn') => logout_clicked']_vars

\* logged in with the right password, the tools shown, then logged out
C10_Witness ==
    /\ session_state = [present |-> TRUE, admin_logged_in |-> FALSE]
    /\ logout_clicked
    /\ rerun_pending
    /\ secrets_auth.admin_password = "hunter2"
    /\ renders = 5

====
